---- MODULE Spec2Model ----
(***************************************************************************)
(* A model of sentiment_analysis_pipeline.py: the text normalizer, the     *)
(* summary post-processor, the summarizer, the article fetcher and the     *)
(* process_news orchestrator.                                              *)
(*                                                                         *)
(* Text is a sequence of one-character strings.  Three characters outside  *)
(* ASCII are written as tokens: EAcute (U+00E9), NBSP (U+00A0) and the     *)
(* two-character mojibake of U+00E9, <<ATilde, CopySign>>.                 *)
(***************************************************************************)
EXTENDS Integers, Sequences, FiniteSets, TLC

VARIABLES
  \* ---- text functions (clean_text, generate_summary) ----
  tpc,          \* "input" | "cleaned" | "summarized"
  text,         \* the argument
  tout,         \* the value returned
  modelCalls,   \* number of invocations of the summarization model
  \* ---- fetch_full_article ----
  fpc,          \* position inside fetch_full_article
  furl,         \* its argument
  response,     \* the local `response`
  flog,         \* the GETs and sleeps issued so far, in order
  fret,         \* the returned pair
  \* ---- process_news ----
  pc,           \* position inside process_news
  siteIdx,      \* index into WEBSITE_CONFIG of the site being processed
  articles,     \* what the scrape backend returned for that site
  filtered_articles,
  artIdx,       \* index into filtered_articles
  full_content,
  image_url,
  sentiment,
  results,      \* the ResultSet
  callLog       \* history of the current site batch: external calls and appends

textVars  == <<tpc, text, tout, modelCalls>>
fetchVars == <<fpc, furl, response, flog, fret>>
newsVars  == <<pc, siteIdx, articles, filtered_articles, artIdx, full_content,
               image_url, sentiment, results, callLog>>
vars == <<tpc, text, tout, modelCalls, fpc, furl, response, flog, fret,
          pc, siteIdx, articles, filtered_articles, artIdx, full_content,
          image_url, sentiment, results, callLog>>

None == "None"

(***************************************************************************)
(* Characters                                                              *)
(***************************************************************************)
EAcute   == "U+00E9"
NBSP     == "U+00A0"
ATilde   == "U+00C3"
CopySign == "U+00A9"

UpperCase == <<"A","B","C","D","E","F","G","H","I","J","K","L","M",
               "N","O","P","Q","R","S","T","U","V","W","X","Y","Z">>
LowerCase == <<"a","b","c","d","e","f","g","h","i","j","k","l","m",
               "n","o","p","q","r","s","t","u","v","w","x","y","z">>

Range(s) == {s[i] : i \in DOMAIN s}

UpperLetters == Range(UpperCase)
LowerLetters == Range(LowerCase)
IsUpper(c) == c \in UpperLetters
IsLower(c) == c \in LowerLetters
\* [A-Za-z]
IsAsciiLetter(c) == IsUpper(c) \/ IsLower(c)
\* \w of a str pattern: Unicode letters, digits and the underscore
IsWordChar(c) ==
  IsAsciiLetter(c) \/ c \in {EAcute, ATilde, "_"}
                   \/ c \in {"0","1","2","3","4","5","6","7","8","9"}
\* \s of a str pattern, and the whitespace of str.strip() and str.split()
IsSpace(c) == c \in {" ", "\t", "\n", NBSP}
\* [\x00-\x7F]
IsAscii(c) == c \notin {EAcute, NBSP, ATilde, CopySign}

IndexOf(c, s) == CHOOSE i \in DOMAIN s : s[i] = c
\* str.upper() and str.lower(), one character at a time
ToUpper(c) == IF IsLower(c) THEN UpperCase[IndexOf(c, LowerCase)]
              ELSE IF c = EAcute THEN "U+00C9" ELSE c
ToLower(c) == IF IsUpper(c) THEN LowerCase[IndexOf(c, UpperCase)]
              ELSE IF c = "U+00C9" THEN EAcute ELSE c
lower(t) == [i \in DOMAIN t |-> ToLower(t[i])]

(***************************************************************************)
(* str helpers                                                             *)
(***************************************************************************)
RECURSIVE lstrip(_)
lstrip(t) == IF t # <<>> /\ IsSpace(Head(t)) THEN lstrip(Tail(t)) ELSE t

RECURSIVE rstrip(_)
rstrip(t) == IF t # <<>> /\ IsSpace(t[Len(t)])
             THEN rstrip(SubSeq(t, 1, Len(t) - 1)) ELSE t

\* str.strip()
strip(t) == rstrip(lstrip(t))

\* len(t.split()): the number of maximal runs of non-whitespace
WordCount(t) ==
  Cardinality({i \in DOMAIN t : ~IsSpace(t[i]) /\ (i = 1 \/ IsSpace(t[i-1]))})

\* t[:n]
Take(t, n) == SubSeq(t, 1, IF Len(t) < n THEN Len(t) ELSE n)

\* needle in t
Contains(t, needle) ==
  \E i \in 0..(Len(t) - Len(needle)) : SubSeq(t, i + 1, i + Len(needle)) = needle

\* t.startswith(prefix)
StartsWith(t, prefix) == Len(t) >= Len(prefix) /\ SubSeq(t, 1, Len(prefix)) = prefix

\* str.capitalize(): the first character upper-cased, all the others lower-cased
capitalize(t) ==
  [i \in DOMAIN t |-> IF i = 1 THEN ToUpper(t[i]) ELSE ToLower(t[i])]

(***************************************************************************)
(* clean_text                                                              *)
(***************************************************************************)
\* unicodedata.normalize("NFKC", text): NBSP is compatibility-equivalent to a
\* space; the precomposed letters and ASCII are already normal
NFKC(t) == [i \in DOMAIN t |-> IF t[i] = NBSP THEN " " ELSE t[i]]

\* re.sub(r"\b([A-Za-z]+)\s([smtdl])\b", r"\1'\2", text)
\* last index of the maximal run of [A-Za-z] that starts at i
RECURSIVE LettersEnd(_, _)
LettersEnd(t, i) ==
  IF i < Len(t) /\ IsAsciiLetter(t[i+1]) THEN LettersEnd(t, i + 1) ELSE i

ApostropheLetters == {"s", "m", "t", "d", "l"}

\* the pattern matches at i (the run is taken whole: a shorter run is followed
\* by a letter, never by whitespace)
ApostropheMatchAt(t, i) ==
  /\ IsAsciiLetter(t[i])
  /\ (i = 1 \/ ~IsWordChar(t[i-1]))
  /\ LET j == LettersEnd(t, i) IN
       /\ j + 2 <= Len(t)
       /\ IsSpace(t[j+1])
       /\ t[j+2] \in ApostropheLetters
       /\ (j + 2 = Len(t) \/ ~IsWordChar(t[j+3]))

RECURSIVE RestoreFrom(_, _)
RestoreFrom(t, i) ==
  IF i > Len(t) THEN <<>>
  ELSE IF ApostropheMatchAt(t, i)
       THEN LET j == LettersEnd(t, i) IN
              SubSeq(t, i, j) \o <<"'", t[j+2]>> \o RestoreFrom(t, j + 3)
       ELSE <<t[i]>> \o RestoreFrom(t, i + 1)

RestoreApostrophes(t) == RestoreFrom(t, 1)

\* re.sub(r"[^\x00-\x7F]+", " ", text)
RECURSIVE StripNonAsciiFrom(_, _)
StripNonAsciiFrom(t, i) ==
  IF i > Len(t) THEN <<>>
  ELSE IF IsAscii(t[i]) THEN <<t[i]>> \o StripNonAsciiFrom(t, i + 1)
  ELSE IF i > 1 /\ ~IsAscii(t[i-1]) THEN StripNonAsciiFrom(t, i + 1)
  ELSE <<" ">> \o StripNonAsciiFrom(t, i + 1)

StripNonAscii(t) == StripNonAsciiFrom(t, 1)

\* re.sub(r"\s+", " ", text)
RECURSIVE CollapseFrom(_, _)
CollapseFrom(t, i) ==
  IF i > Len(t) THEN <<>>
  ELSE IF ~IsSpace(t[i]) THEN <<t[i]>> \o CollapseFrom(t, i + 1)
  ELSE IF i > 1 /\ IsSpace(t[i-1]) THEN CollapseFrom(t, i + 1)
  ELSE <<" ">> \o CollapseFrom(t, i + 1)

CollapseSpaces(t) == CollapseFrom(t, 1)

\* text.encode("utf-8", "ignore").decode("utf-8"): a character that has no
\* UTF-8 encoding (a lone surrogate) is dropped, every other one is kept
Utf8RoundTrip(t) == SelectSeq(t, LAMBDA c : c # "U+D800")

\* clean_text(text) for a str argument (no step raises on a str)
clean_text(t) ==
  strip(CollapseSpaces(StripNonAscii(RestoreApostrophes(Utf8RoundTrip(NFKC(t))))))

(***************************************************************************)
(* clean_summary                                                           *)
(***************************************************************************)
\* ftfy.fix_text(text): UTF-8 that was decoded as Latin-1 is decoded again; of
\* the characters of this model that is the pair <<ATilde, CopySign>>, which is
\* U+00E9.  Text without mojibake is returned as it is.
RECURSIVE FixTextFrom(_, _)
FixTextFrom(t, i) ==
  IF i > Len(t) THEN <<>>
  ELSE IF i < Len(t) /\ t[i] = ATilde /\ t[i+1] = CopySign
       THEN <<EAcute>> \o FixTextFrom(t, i + 2)
       ELSE <<t[i]>> \o FixTextFrom(t, i + 1)

fix_text(t) == FixTextFrom(t, 1)

SpacedPunctuation == {".", ",", "!", "?", ";", ":"}
SentenceEnd == {".", "!", "?"}

\* re.sub(r'\s([.,!?;:])', r'\1', text)
RECURSIVE UnspaceFrom(_, _)
UnspaceFrom(t, i) ==
  IF i > Len(t) THEN <<>>
  ELSE IF i < Len(t) /\ IsSpace(t[i]) /\ t[i+1] \in SpacedPunctuation
       THEN <<t[i+1]>> \o UnspaceFrom(t, i + 2)
       ELSE <<t[i]>> \o UnspaceFrom(t, i + 1)

UnspacePunctuation(t) == UnspaceFrom(t, 1)

\* last index of the maximal run of whitespace that starts at i
RECURSIVE SpacesEnd(_, _)
SpacesEnd(t, i) ==
  IF i < Len(t) /\ IsSpace(t[i+1]) THEN SpacesEnd(t, i + 1) ELSE i

\* re.sub(r'(^|[.!?]\s+)([a-z])', lambda m: m.group(1) + m.group(2).upper(), text)
RECURSIVE CapitalizeFrom(_, _)
CapitalizeFrom(t, i) ==
  IF i > Len(t) THEN <<>>
  ELSE IF i = 1 /\ IsLower(t[1])
       THEN <<ToUpper(t[1])>> \o CapitalizeFrom(t, 2)
  ELSE IF /\ t[i] \in SentenceEnd
          /\ i < Len(t) /\ IsSpace(t[i+1])
          /\ SpacesEnd(t, i + 1) < Len(t)
          /\ IsLower(t[SpacesEnd(t, i + 1) + 1])
       THEN LET k == SpacesEnd(t, i + 1) + 1 IN
              SubSeq(t, i, k - 1) \o <<ToUpper(t[k])>> \o CapitalizeFrom(t, k + 1)
       ELSE <<t[i]>> \o CapitalizeFrom(t, i + 1)

CapitalizeSentences(t) == CapitalizeFrom(t, 1)

\* if text and text[-1] not in ".!?": text += "."
EndWithPeriod(t) ==
  IF t # <<>> /\ t[Len(t)] \notin SentenceEnd THEN t \o <<".">> ELSE t

clean_summary(t) ==
  strip(EndWithPeriod(RestoreApostrophes(CapitalizeSentences(
    UnspacePunctuation(CollapseSpaces(NFKC(fix_text(t))))))))

(***************************************************************************)
(* generate_summary                                                        *)
(***************************************************************************)
NoContentMessage ==
  <<"N", "o", " ", "c", "o", "n", "t", "e", "n", "t", " ", "a", "v", "a", "i",
    "l", "a", "b", "l", "e", " ", "t", "o", " ", "s", "u", "m", "m", "a", "r",
    "i", "z", "e", ".">>

MinWordsForModel == 10
FallbackChars == 300

\* what the summarization model can answer: a summary_text, or an exception
RawSummaries ==
  { <<"c", "a", "f", ATilde, CopySign, " ", "s", " ", ".", " ", "o", "k">> }
ModelRaises == [raises |-> TRUE, summary_text |-> <<>>]
ModelAnswers ==
  {[raises |-> FALSE, summary_text |-> raw] : raw \in RawSummaries} \cup {ModelRaises}

\* the model is invoked exactly when the trimmed text has 10 words or more
InvokesModel(t) ==
  LET trimmed == strip(t) IN trimmed # <<>> /\ WordCount(trimmed) >= MinWordsForModel

\* generate_summary(text) for a str argument, the model answering `answer` if
\* it is invoked (its input, "summarize: " + text[:2048], does not decide the
\* answer here)
generate_summary(t, answer) ==
  LET trimmed == strip(t) IN
    IF trimmed = <<>> THEN NoContentMessage
    ELSE IF WordCount(trimmed) < MinWordsForModel THEN capitalize(trimmed)
    ELSE IF answer.raises
         THEN clean_summary(Take(trimmed, FallbackChars) \o <<".", ".", ".">>)
         ELSE clean_summary(answer.summary_text)

(***************************************************************************)
(* The text functions as a state machine: one call of clean_text, a second *)
(* call on its result, or one call of generate_summary.                    *)
(***************************************************************************)
MaxTextLen == 5
TextAlphabet == {"a", "s", "B", " ", EAcute, NBSP}

RECURSIVE SeqsUpTo(_, _)
SeqsUpTo(S, n) ==
  IF n = 0 THEN {<<>>}
  ELSE LET shorter == SeqsUpTo(S, n - 1) IN
         shorter \cup {Append(t, c) : t \in {u \in shorter : Len(u) = n - 1}, c \in S}

\* `n` words "ab" separated by single spaces
RECURSIVE Words(_)
Words(n) == IF n = 1 THEN <<"a", "B">> ELSE Words(n - 1) \o <<" ", "a", "B">>

\* texts on both sides of the 10-word threshold of generate_summary
LongTexts == {Words(MinWordsForModel - 1), Words(MinWordsForModel),
              <<" ">> \o Words(MinWordsForModel + 1)}

TextInputs == SeqsUpTo(TextAlphabet, MaxTextLen) \cup LongTexts

IdleText  == /\ tpc = "idle" /\ text = <<>> /\ tout = <<>> /\ modelCalls = 0

TextInit ==
  /\ tpc = "input"
  /\ text \in TextInputs
  /\ tout = <<>>
  /\ modelCalls = 0

\* tout = clean_text(text)
CleanText ==
  /\ tpc = "input"
  /\ tout' = clean_text(text)
  /\ tpc' = "cleaned"
  /\ UNCHANGED <<text, modelCalls>>

\* text = the first result; tout = clean_text(text)
CleanTextAgain ==
  /\ tpc = "cleaned"
  /\ text' = tout
  /\ tout' = clean_text(tout)
  /\ tpc' = "recleaned"
  /\ UNCHANGED modelCalls

\* tout = generate_summary(text)
GenerateSummary ==
  /\ tpc = "input"
  /\ \E answer \in ModelAnswers :
       tout' = generate_summary(text, answer)
  /\ modelCalls' = IF InvokesModel(text) THEN modelCalls + 1 ELSE modelCalls
  /\ tpc' = "summarized"
  /\ UNCHANGED text

(***************************************************************************)
(* fetch_full_article                                                      *)
(***************************************************************************)
ContentNotAvailable == <<"C", "o", "n", "t", "e", "n", "t", " ", "n", "o", "t", " ", "a", "v", "a", "i", "l", "a", "b", "l", "e">>

HttpScheme  == <<"h", "t", "t", "p", ":", "/", "/">>
HttpsScheme == <<"h", "t", "t", "p", "s", ":", "/", "/">>

\* session.get raises (MissingSchema, InvalidSchema) for a URL that is not http(s)
CanRequest(url) == StartsWith(url, HttpScheme) \/ StartsWith(url, HttpsScheme)

Forbidden == 403
BackoffSeconds == 2

\* " ".join(parts)
RECURSIVE Join(_)
Join(parts) ==
  IF parts = <<>> THEN <<>>
  ELSE IF Len(parts) = 1 THEN parts[1]
  ELSE parts[1] \o <<" ">> \o Join(Tail(parts))

\* A response body: whether html.fromstring accepts it, the //p/text() nodes and
\* the contents of the og:image meta tags
ImageUrl == "img"
Bodies ==
  { [parses |-> FALSE, paragraphs |-> <<>>, og |-> <<>>],
    [parses |-> TRUE,  paragraphs |-> <<>>, og |-> <<>>],
    [parses |-> TRUE,  paragraphs |-> <<>>, og |-> <<ImageUrl>>],
    [parses |-> TRUE,  paragraphs |-> << <<" ">> >>, og |-> <<ImageUrl>>],
    [parses |-> TRUE,  paragraphs |-> << <<"U", "p">>, <<"N", "o", "w", " ">> >>,
     og |-> <<>>],
    [parses |-> TRUE,  paragraphs |-> << Words(MinWordsForModel) >>,
     og |-> <<ImageUrl>>] }

Statuses == {200, 403, 404, 500}
NetworkError == [raised |-> TRUE]
\* what a GET can produce: a response, or an exception
Responses == [raised : {FALSE}, status : Statuses, body : Bodies] \cup {NetworkError}

\* a retry on any error status, not on 403 alone
ShouldRetryOnAnyError(r) == r.status >= 400

\* if response.status_code == 403
ShouldRetry(r) == r.status = Forbidden

\* response.raise_for_status() raises for 4xx and 5xx
RaisesForStatus(r) == r.status >= 400 /\ r.status < 600

\* extract_image(tree)
extract_image(body) == IF body.og # <<>> THEN body.og[1] ELSE None

\* " ".join(tree.xpath("//p/text()")).strip()
ExtractContent(body) == strip(Join(body.paragraphs))

\* lines 97-110 on the last response received
ParseAndReturn(r) ==
  IF RaisesForStatus(r) \/ ~r.body.parses
  THEN <<ContentNotAvailable, None>>
  ELSE LET content == ExtractContent(r.body) IN
         <<IF content # <<>> THEN content ELSE ContentNotAvailable,
           extract_image(r.body)>>

\* fetch_full_article(url) as a function of what the first GET and the retry
\* answer
fetch_full_article(url, r1, r2) ==
  IF ~CanRequest(url) \/ r1.raised THEN <<ContentNotAvailable, None>>
  ELSE IF ShouldRetry(r1)
       THEN IF r2.raised THEN <<ContentNotAvailable, None>>
            ELSE ParseAndReturn(r2)
       ELSE ParseAndReturn(r1)

GuardianRoot == <<"h", "t", "t", "p", "s", ":", "/", "/", "w", "w", "w", ".", "t", "h", "e", "g", "u", "a", "r", "d", "i", "a", "n", ".", "c", "o", "m">>

FetchUrls == { GuardianRoot \o <<"/", "a">>,
               HttpScheme \o <<"x">>,
               <<"/", "a">> }

IdleFetch ==
  /\ fpc = "idle" /\ furl = <<>> /\ response = None /\ flog = <<>> /\ fret = None

FetchInit ==
  /\ fpc = "start"
  /\ furl \in FetchUrls
  /\ response = None
  /\ flog = <<>>
  /\ fret = None

\* the exception handler of lines 108-110
FetchFails ==
  /\ fret' = <<ContentNotAvailable, None>>
  /\ fpc' = "returned"

\* response = session.get(url, headers=HEADERS)
FirstGet ==
  /\ fpc = "start"
  /\ IF ~CanRequest(furl)
     THEN FetchFails /\ UNCHANGED <<response, flog>>
     ELSE \E r \in Responses :
            IF r.raised
            THEN /\ FetchFails
                 /\ flog' = Append(flog, [op |-> "GET", raised |-> TRUE])
                 /\ UNCHANGED response
            ELSE /\ response' = r
                 /\ flog' = Append(flog, [op |-> "GET", raised |-> FALSE, status |-> r.status])
                 /\ fpc' = IF ShouldRetry(r) THEN "backoff" ELSE "parse"
                 /\ UNCHANGED fret
  /\ UNCHANGED furl

\* time.sleep(2)
Backoff ==
  /\ fpc = "backoff"
  /\ flog' = Append(flog, [op |-> "sleep", seconds |-> BackoffSeconds])
  /\ fpc' = "retry"
  /\ UNCHANGED <<furl, response, fret>>

\* response = session.get(url, headers=HEADERS, cookies=session.cookies)
RetryGet ==
  /\ fpc = "retry"
  /\ \E r \in Responses :
       IF r.raised
       THEN /\ FetchFails
            /\ flog' = Append(flog, [op |-> "GET", raised |-> TRUE])
            /\ UNCHANGED response
       ELSE /\ response' = r
            /\ flog' = Append(flog, [op |-> "GET", raised |-> FALSE, status |-> r.status])
            /\ fpc' = "parse"
            /\ UNCHANGED fret
  /\ UNCHANGED furl

\* raise_for_status, html.fromstring, the two extractions and the return
ParseResponse ==
  /\ fpc = "parse"
  /\ fret' = ParseAndReturn(response)
  /\ fpc' = "returned"
  /\ UNCHANGED <<furl, response, flog>>

(***************************************************************************)
(* fix_guardian_link, filter_headlines and the dedupe loop of process_news *)
(***************************************************************************)
\* link.split("#")[0]
RECURSIVE BeforeHash(_)
BeforeHash(link) ==
  IF link = <<>> \/ Head(link) = "#" THEN <<>>
  ELSE <<Head(link)>> \o BeforeHash(Tail(link))

\* the relative link prefixed, its fragment kept
fix_guardian_link_keeping_fragment(link) ==
  IF ~StartsWith(link, <<"h", "t", "t", "p">>)
  THEN GuardianRoot \o link
  ELSE link

fix_guardian_link(link) ==
  IF ~StartsWith(link, <<"h", "t", "t", "p">>)
  THEN GuardianRoot \o BeforeHash(link)
  ELSE link

\* the test of lines 57-62 on a cleaned headline: TRUE when it is kept
KeepHeadline(cleaned_headline) ==
  /\ ~(WordCount(cleaned_headline) <= 2)
  /\ ~Contains(lower(cleaned_headline), <<"v", "i", "d", "e", "o">>)
  /\ ~Contains(lower(cleaned_headline), <<"a", "d", "v", "e", "r", "t", "i", "s", "e", "m", "e", "n", "t">>)

\* filter_headlines(headlines): defined by the module, called by nothing in it
filter_headlines(headlines) ==
  SelectSeq([i \in DOMAIN headlines |-> clean_text(headlines[i])], KeepHeadline)

\* cleaned_link of line 188
CleanedLink(link, site) ==
  IF site = "guardian" THEN fix_guardian_link(link) ELSE link

\* a membership test that never finds the link
AlreadySeenNever(cleaned_link, seen_articles) == FALSE

\* if cleaned_link in seen_articles
AlreadySeen(cleaned_link, seen_articles) == cleaned_link \in seen_articles

\* the loop of lines 186-194 from entry i on
RECURSIVE DedupeFrom(_, _, _, _, _)
DedupeFrom(batch, i, site, seen_articles, filtered) ==
  IF i > Len(batch) THEN filtered
  ELSE LET cleaned_headline == clean_text(batch[i].headline)
           cleaned_link == CleanedLink(batch[i].link, site)
       IN IF AlreadySeen(cleaned_link, seen_articles)
          THEN DedupeFrom(batch, i + 1, site, seen_articles, filtered)
          ELSE DedupeFrom(batch, i + 1, site, seen_articles \cup {cleaned_link},
                 Append(filtered, [headline |-> cleaned_headline,
                                   link |-> cleaned_link]))

\* the loop without seen_articles: every entry is kept
DedupeKeepingAll(batch, site) ==
  [i \in DOMAIN batch |-> [headline |-> clean_text(batch[i].headline),
                           link |-> CleanedLink(batch[i].link, site)]]

Dedupe(batch, site) == DedupeFrom(batch, 1, site, {}, <<>>)

(***************************************************************************)
(* process_news                                                            *)
(***************************************************************************)
\* news_sites.json: the sites in the order of the file, with their `dynamic` flag
WEBSITE_CONFIG ==
  << [site |-> "guardian", dynamic |-> FALSE],
     [site |-> "bbc", dynamic |-> TRUE] >>

Labels == {"positive", "neutral", "negative"}

\* what analyze_keywords can answer: a dict with the label, a dict without it,
\* or nothing
ClassifierDicts == {[final_sentiment |-> l] : l \in Labels} \cup {[score |-> 0]}
NoResponse == [returned |-> "None"]
ClassifierResponses ==
  {[returned |-> "dict", dict |-> d] : d \in ClassifierDicts} \cup {NoResponse}

\* d.get(key) with another default than the one passed
dict_get_defaulting_positive(d, key, default) ==
  IF key \in DOMAIN d THEN d[key] ELSE "positive"

\* d.get(key, default) of a dict
dict_get(d, key, default) == IF key \in DOMAIN d THEN d[key] ELSE default

\* if full_content == "Content not available"
IsSentinel(content) == content = ContentNotAvailable

\* what a scrape backend can return for a site
MaxBatch == 3
Headlines ==
  { <<"U", "p", " ", "n", "o", "w">>,
    <<"U", "p", " ", "w", "e", " ", "g", "o">> }
TeaserHeadline == <<"U", "p", " ", "a", " ", "V", "i", "d", "e", "o">>
Links ==
  { <<"/", "a">>, <<"/", "a", "#", "c">>, GuardianRoot \o <<"/", "b">> }
\* the guardian listing carries each of two headlines with every link; the bbc
\* listing a teaser, with a relative link and with a link to a guardian page
ListingEntries ==
  [guardian |-> [headline : Headlines, link : Links],
   bbc      |-> [headline : {TeaserHeadline},
                 link : {<<"/", "a">>, GuardianRoot \o <<"/", "b">>}]]
Batches == [site \in DOMAIN ListingEntries |-> SeqsUpTo(ListingEntries[site], MaxBatch)]

\* every URL process_news can pass to fetch_full_article
AllUrls ==
  {CleanedLink(e.link, site) : e \in ListingEntries["guardian"] \cup ListingEntries["bbc"],
                               site \in DOMAIN ListingEntries}
\* the pairs fetch_full_article(url) can return, over all the answers to its GETs
FetchOutcomes ==
  [url \in AllUrls |->
     {fetch_full_article(url, r1, r2) : r1 \in Responses, r2 \in Responses}]

EmptyResults == [positive |-> <<>>, neutral |-> <<>>, negative |-> <<>>]
TotalArticles(r) == Len(r["positive"]) + Len(r["neutral"]) + Len(r["negative"])

IdleNews ==
  /\ pc = "idle" /\ siteIdx = 0 /\ articles = <<>> /\ filtered_articles = <<>>
  /\ artIdx = 0 /\ full_content = None /\ image_url = None /\ sentiment = None
  /\ results = EmptyResults /\ callLog = <<>>

\* results = {"positive": [], "neutral": [], "negative": []}, before the first site
NewsInit ==
  /\ pc = "scrape"
  /\ siteIdx = 1
  /\ articles = <<>>
  /\ filtered_articles = <<>>
  /\ artIdx = 0
  /\ full_content = None
  /\ image_url = None
  /\ sentiment = None
  /\ results = EmptyResults
  /\ callLog = <<>>

CurrentSite == WEBSITE_CONFIG[siteIdx].site
\* headline and url of lines 197-198
CurrentHeadline == clean_text(filtered_articles[artIdx].headline)
CurrentUrl == filtered_articles[artIdx].link

\* lines 173-194: one site's scrape and the dedupe loop.  callLog starts again
\* with the batch, recording the backend called and the ResultSet as it was.
Scrape ==
  /\ pc = "scrape"
  /\ \E batch \in Batches[CurrentSite] :
       /\ articles' = batch
       /\ filtered_articles' = Dedupe(batch, CurrentSite)
  /\ artIdx' = 1
  /\ callLog' = << <<"scrape",
                     IF WEBSITE_CONFIG[siteIdx].dynamic
                     THEN "scrape_dynamic_website" ELSE "scrape_static_website",
                     results>> >>
  /\ pc' = "article"
  /\ UNCHANGED <<siteIdx, full_content, image_url, sentiment, results>>

\* lines 196-204: the next article is fetched, and skipped on the sentinel
FetchArticle ==
  /\ pc = "article"
  /\ artIdx <= Len(filtered_articles)
  /\ \E fetched \in FetchOutcomes[CurrentUrl] :
         /\ callLog' = Append(callLog, <<"fetch", CurrentUrl, fetched[1]>>)
         /\ IF IsSentinel(fetched[1])
            THEN /\ artIdx' = artIdx + 1
                 /\ pc' = "article"
                 /\ UNCHANGED <<full_content, image_url>>
            ELSE /\ full_content' = fetched[1]
                 /\ image_url' = fetched[2]
                 /\ pc' = "classify"
                 /\ UNCHANGED artIdx
  /\ UNCHANGED <<siteIdx, articles, filtered_articles, sentiment, results>>

\* lines 206-207: None has no .get, and nothing catches the AttributeError
Classify ==
  /\ pc = "classify"
  /\ \E sentiment_response \in ClassifierResponses :
       /\ callLog' = Append(callLog, <<"classify", CurrentHeadline, sentiment_response>>)
       /\ IF sentiment_response = NoResponse
          THEN /\ pc' = "aborted"
               /\ UNCHANGED sentiment
          ELSE /\ sentiment' = dict_get(sentiment_response.dict, "final_sentiment", "neutral")
               /\ pc' = "summarize"
  /\ UNCHANGED <<siteIdx, articles, filtered_articles, artIdx, full_content,
                 image_url, results>>

\* lines 209-223: the summary, the record (its timestamp left out) and the append
Summarize ==
  /\ pc = "summarize"
  /\ \E answer \in ModelAnswers :
       LET article_data == [headline  |-> CurrentHeadline,
                            url       |-> CurrentUrl,
                            sentiment |-> sentiment,
                            summary   |-> generate_summary(full_content, answer),
                            image     |-> image_url]
       IN /\ results' = [results EXCEPT ![sentiment] = Append(@, article_data)]
          /\ callLog' = callLog \o << <<"summarize", CurrentUrl, InvokesModel(full_content)>>,
                                      <<"append", sentiment, article_data>> >>
  /\ artIdx' = artIdx + 1
  /\ full_content' = None
  /\ image_url' = None
  /\ sentiment' = None
  /\ pc' = "article"
  /\ UNCHANGED <<siteIdx, articles, filtered_articles>>

\* line 172: the site's articles are exhausted; on to the next site, or out of
\* the loop
NextSite ==
  /\ pc = "article"
  /\ artIdx > Len(filtered_articles)
  /\ siteIdx' = siteIdx + 1
  /\ pc' = IF siteIdx < Len(WEBSITE_CONFIG) THEN "scrape" ELSE "serialize"
  /\ articles' = <<>>
  /\ filtered_articles' = <<>>
  /\ artIdx' = 0
  /\ callLog' = <<>>
  /\ UNCHANGED <<full_content, image_url, sentiment, results>>

\* lines 225-226: json.dump(results, f)
Serialize ==
  /\ pc = "serialize"
  /\ pc' = "done"
  /\ UNCHANGED <<siteIdx, articles, filtered_articles, artIdx, full_content,
                 image_url, sentiment, results, callLog>>

(***************************************************************************)
(* Specifications                                                          *)
(***************************************************************************)
Init == NewsInit /\ IdleText /\ IdleFetch
Next ==
  \/ Scrape /\ UNCHANGED <<textVars, fetchVars>>
  \/ FetchArticle /\ UNCHANGED <<textVars, fetchVars>>
  \/ Classify /\ UNCHANGED <<textVars, fetchVars>>
  \/ Summarize /\ UNCHANGED <<textVars, fetchVars>>
  \/ NextSite /\ UNCHANGED <<textVars, fetchVars>>
  \/ Serialize /\ UNCHANGED <<textVars, fetchVars>>
Spec == Init /\ [][Next]_vars

FetchSpecInit == FetchInit /\ IdleText /\ IdleNews
FetchNext ==
  \/ FirstGet /\ UNCHANGED <<textVars, newsVars>>
  \/ Backoff /\ UNCHANGED <<textVars, newsVars>>
  \/ RetryGet /\ UNCHANGED <<textVars, newsVars>>
  \/ ParseResponse /\ UNCHANGED <<textVars, newsVars>>
FetchSpec == FetchSpecInit /\ [][FetchNext]_vars

TextSpecInit == TextInit /\ IdleFetch /\ IdleNews
TextNext ==
  \/ CleanText /\ UNCHANGED <<fetchVars, newsVars>>
  \/ CleanTextAgain /\ UNCHANGED <<fetchVars, newsVars>>
  \/ GenerateSummary /\ UNCHANGED <<fetchVars, newsVars>>
TextSpec == TextSpecInit /\ [][TextNext]_vars

(***************************************************************************)
(* Properties of fetch_full_article (FetchSpec)                            *)
(***************************************************************************)
IsGet(e) == e.op = "GET"
NumGets == Len(SelectSeq(flog, IsGet))
FirstGot(status) ==
  Len(flog) >= 1 /\ IsGet(flog[1]) /\ ~flog[1].raised /\ flog[1].status = status
RetryGot(status) ==
  Len(flog) = 3 /\ IsGet(flog[3]) /\ ~flog[3].raised /\ flog[3].status = status
RetryFailed ==
  Len(flog) = 3 /\ IsGet(flog[3]) /\ (flog[3].raised \/ flog[3].status >= 400)

\* A second GET is issued only as the third step, after a first GET answered 403
\* and a sleep of 2; a call that has returned after a 403 has issued it; there
\* are never more than two GETs.
RetryDiscipline ==
  /\ NumGets <= 2
  /\ \A k \in DOMAIN flog :
       (k > 1 /\ IsGet(flog[k])) =>
          /\ k = 3
          /\ FirstGot(Forbidden)
          /\ flog[2] = [op |-> "sleep", seconds |-> BackoffSeconds]
  /\ (fpc = "returned" /\ FirstGot(Forbidden)) => NumGets = 2
  /\ (fpc = "returned" /\ RetryFailed) => fret[1] = ContentNotAvailable

\* C1 as stated: the retry discipline, and after 403 then 200 the call returns
\* the content extracted from the retry response, never the sentinel.
C1_RetryReturnsRetryContent ==
  /\ RetryDiscipline
  /\ (fpc = "returned" /\ FirstGot(Forbidden) /\ RetryGot(200)) =>
        /\ fret[1] = ExtractContent(response.body)
        /\ fret[1] # ContentNotAvailable

\* C1 amended: the retry discipline, and after 403 then 200 the call returns the
\* content extracted from the retry response when the body parses and that
\* content is not empty, and the sentinel otherwise.
C1_RetryReturnsRetryContentIfAny ==
  /\ RetryDiscipline
  /\ (fpc = "returned" /\ FirstGot(Forbidden) /\ RetryGot(200)) =>
        IF response.body.parses /\ ExtractContent(response.body) # <<>>
        THEN fret[1] = ExtractContent(response.body)
        ELSE fret[1] = ContentNotAvailable

C1_Witness ==
  /\ fpc = "returned"
  /\ FirstGot(Forbidden)
  /\ flog[2] = [op |-> "sleep", seconds |-> BackoffSeconds]
  /\ RetryGot(200)
  /\ fret[1] = <<"U", "p", " ", "N", "o", "w">>

\* C5: whenever fetch_full_article returns the sentinel content, the image it
\* returns with it is None.
C5_SentinelHasNoImage ==
  (fpc = "returned" /\ fret[1] = ContentNotAvailable) => fret[2] = None

(***************************************************************************)
(* Properties of the text functions (TextSpec)                             *)
(***************************************************************************)
\* the text with its first letter upper-cased and nothing else changed
FirstLetterCapitalized(t) ==
  [i \in DOMAIN t |-> IF i = 1 THEN ToUpper(t[i]) ELSE t[i]]

\* C8: for a text whose trimmed form is not empty and has fewer than 10 words,
\* generate_summary returns the trimmed text with only its first letter
\* capitalized, and does not invoke the model.
C8_ShortTextOnlyFirstLetterCapitalized ==
  (tpc = "summarized" /\ strip(text) # <<>> /\ WordCount(strip(text)) < 10) =>
     /\ tout = FirstLetterCapitalized(strip(text))
     /\ modelCalls = 0

\* C9: clean_text applied to a result of clean_text returns it unchanged.
C9_CleanTextIdempotent ==
  tpc = "recleaned" => tout = text

(***************************************************************************)
(* Properties of process_news (Spec)                                       *)
(***************************************************************************)
InBatch == pc \in {"article", "classify", "summarize", "aborted"}
BatchDone == pc = "article" /\ artIdx > Len(filtered_articles)

\* the ResultSet as it was when the current batch was scraped
ResultsBefore == callLog[1][3]
\* the Articles appended since, bucket after bucket
AppendedTo(b) == SubSeq(results[b], Len(ResultsBefore[b]) + 1, Len(results[b]))
BatchArticles == AppendedTo("positive") \o AppendedTo("neutral") \o AppendedTo("negative")
AllArticles == results["positive"] \o results["neutral"] \o results["negative"]

DistinctUrls(as) ==
  \A i \in DOMAIN as : \A j \in DOMAIN as : i # j => as[i].url # as[j].url

\* the link up to its first "#", the whole link when it has none
FragmentRemoved(link) ==
  LET hashes == {i \in DOMAIN link : link[i] = "#"} IN
    IF hashes = {} THEN link
    ELSE SubSeq(link, 1, (CHOOSE i \in hashes : \A j \in hashes : i <= j) - 1)

\* the absolute URL of a raw link as the design states it
ResolvedUrl(link, site) ==
  IF site = "guardian" /\ ~StartsWith(link, <<"h", "t", "t", "p">>)
  THEN GuardianRoot \o FragmentRemoved(link)
  ELSE link

ResolvedBatch == [i \in DOMAIN articles |-> ResolvedUrl(articles[i].link, CurrentSite)]
BatchUrls == Range(ResolvedBatch)

FetchReturnedContent(u) ==
  \E k \in DOMAIN callLog :
     /\ callLog[k][1] = "fetch"
     /\ callLog[k][2] = u
     /\ callLog[k][3] # ContentNotAvailable
FetchReturnedSentinel(u) ==
  \E k \in DOMAIN callLog :
     /\ callLog[k][1] = "fetch"
     /\ callLog[k][2] = u
     /\ callLog[k][3] = ContentNotAvailable

\* C2: when a site batch has been processed, the number of Articles appended
\* for it is the number of distinct resolved URLs of the batch whose fetch
\* returned content; 3 pairs, 2 resolved URLs, one of them without content: 1.
C2_OneArticlePerFetchedUrl ==
  BatchDone =>
    /\ Len(BatchArticles) = Cardinality({u \in BatchUrls : FetchReturnedContent(u)})
    /\ ( /\ Len(articles) = 3
         /\ Cardinality(BatchUrls) = 2
         /\ Cardinality({u \in BatchUrls : FetchReturnedSentinel(u)}) = 1 )
       => Len(BatchArticles) = 1

C2_Witness ==
  /\ BatchDone
  /\ Len(articles) = 3
  /\ Cardinality(BatchUrls) = 2
  /\ Cardinality({u \in BatchUrls : FetchReturnedSentinel(u)}) = 1
  /\ Len(BatchArticles) = 1
  /\ TotalArticles(results) = 1

\* C3: every entry that survives the dedupe stage, and every Article of the
\* ResultSet, has a headline of 3 tokens or more without "video" or
\* "advertisement".
C3_ShortAndTeaserHeadlinesDiscarded ==
  /\ \A i \in DOMAIN filtered_articles : KeepHeadline(filtered_articles[i].headline)
  /\ \A i \in DOMAIN AllArticles : KeepHeadline(AllArticles[i].headline)

\* C4 as stated: no two Articles of the ResultSet have the same url.
C4_NoTwoArticlesShareUrl == DistinctUrls(AllArticles)

\* C4 amended: no two Articles appended for the same site batch have the same
\* url.
C4_NoTwoArticlesOfOneBatchShareUrl ==
  InBatch => DistinctUrls(BatchArticles)

C4_Witness ==
  /\ InBatch
  /\ Len(BatchArticles) = 2
  /\ Len(articles) = 3
  /\ Cardinality(BatchUrls) = 2

\* C6: no failure aborts a run: process_news is at one of its steps, each of
\* which leads on towards the serialization, or has serialized the ResultSet.
C6_RunReachesSerialization ==
  pc \in {"scrape", "article", "classify", "summarize", "serialize", "done"}

\* the indices of `urls` that are the first with their URL
FirstOccurrences(urls) == {i \in DOMAIN urls : \A j \in 1..(i-1) : urls[j] # urls[i]}
\* the k-th element of a set of indices, in increasing order
Kth(indices, k) ==
  CHOOSE i \in indices : Cardinality({j \in indices : j < i}) = k - 1

\* C7: the dedupe loop outputs, in batch order, the first entry of each
\* distinct resolved URL, with its normalized headline; on the guardian site a
\* relative link resolves to the domain root plus the link without its fragment.
C7_FirstEntryPerResolvedUrl ==
  InBatch =>
    LET urls == ResolvedBatch
        firsts == FirstOccurrences(urls)
    IN /\ Len(filtered_articles) = Cardinality(firsts)
       /\ \A k \in DOMAIN filtered_articles :
            /\ filtered_articles[k].link = urls[Kth(firsts, k)]
            /\ filtered_articles[k].headline = clean_text(articles[Kth(firsts, k)].headline)

C7_Witness ==
  /\ InBatch
  /\ CurrentSite = "guardian"
  /\ Len(articles) = 3
  /\ articles[1].link = <<"/", "a", "#", "c">>
  /\ articles[2].link = GuardianRoot \o <<"/", "b">>
  /\ articles[3].link = <<"/", "a">>
  /\ articles[1].headline # articles[3].headline
  /\ Len(filtered_articles) = 2
  /\ filtered_articles[1].link = GuardianRoot \o <<"/", "a">>

\* the label of a classifier answer as the design states it
LabelOf(d) == IF "final_sentiment" \in DOMAIN d THEN d.final_sentiment ELSE "neutral"

\* C10: the ResultSet has the three keys; an Article under key b has sentiment
\* b; an Article is stored under the label of its classifier answer, neutral
\* when the answer has none; after a fetch that returned the sentinel the next
\* call is the next fetch, and no Article of the batch has that url.
C10_BucketsAndSentinel ==
  /\ DOMAIN results = Labels
  /\ \A b \in Labels : \A i \in DOMAIN results[b] : results[b][i].sentiment = b
  /\ InBatch =>
       \A k \in DOMAIN callLog :
          /\ (callLog[k][1] = "classify" /\ k + 2 <= Len(callLog)) =>
                /\ callLog[k+2][1] = "append"
                /\ callLog[k+2][2] = LabelOf(callLog[k][3].dict)
                /\ \E i \in DOMAIN results[LabelOf(callLog[k][3].dict)] :
                      results[LabelOf(callLog[k][3].dict)][i] = callLog[k+2][3]
          /\ (callLog[k][1] = "fetch" /\ callLog[k][3] = ContentNotAvailable) =>
                /\ (k = Len(callLog) \/ callLog[k+1][1] = "fetch")
                /\ \A i \in DOMAIN BatchArticles : BatchArticles[i].url # callLog[k][2]
          /\ callLog[k][1] \in {"classify", "summarize"} =>
                \E j \in 1..(k-1) :
                   /\ callLog[j][1] = "fetch"
                   /\ callLog[j][3] # ContentNotAvailable
                   /\ \A m \in (j+1)..(k-1) : callLog[m][1] # "fetch"

C10_Witness ==
  /\ InBatch
  /\ Len(callLog) = 6
  /\ callLog[2][1] = "fetch" /\ callLog[2][3] = ContentNotAvailable
  /\ callLog[3][1] = "fetch"
  /\ callLog[4][1] = "classify" /\ callLog[4][3].dict = [score |-> 0]
  /\ callLog[6][1] = "append" /\ callLog[6][2] = "neutral"
  /\ Len(results["neutral"]) = 1

====
